---------------------------- MODULE Spec2Model ----------------------------
(***************************************************************************)
(* Short-rate simulation engines of carroll3d/interest-rate-ALM:           *)
(* vasicek.py (vasicek_path, vasicek_paths, vasicek_analytic_mean_var) and *)
(* cir.py (cir_path, cir_paths, cir_analytic_mean_var), driven the way     *)
(* app.py drives them: parameters are fixed for a session, every rerun     *)
(* calls *_paths and then *_analytic_mean_var on the returned grid.        *)
(*                                                                         *)
(* Numbers.  Python floats are modelled on the integer grid: + - * are     *)
(* exact (the inputs are small integers, for which IEEE-754 doubles are    *)
(* exact too), sqrt rounds down to the grid, exp is a fixed-point value    *)
(* in units of 1/Scale, and NaN is a separate value that every operation   *)
(* propagates and every comparison answers False for, as IEEE-754 does.    *)
(* Overflow to +-inf is outside the model.                                 *)
(*                                                                         *)
(* Random stream.  np.random.default_rng(seed) is a generator whose k-th   *)
(* normal() is a fixed function Draw(key, k) of the seed; with seed None   *)
(* the key comes from OS entropy, a nondeterministic choice.               *)
(***************************************************************************)
EXTENDS Integers, Sequences, FiniteSets, TLC

-----------------------------------------------------------------------------
(* Bounds of the model *)

MaxT == 3
MaxPaths == 2
MaxSeed == 1

(* Input domains *)

Engines == {"vasicek", "cir"}
R0s == {-1, 0, 1}
Speeds == {-1, 0, 1}
Levels == {-1, 1}
Vols == {0, 1}
Horizons == (0 - MaxT)..MaxT
TimeSteps == {-1, 0, 1, 2, 4}
PathCounts == -1..MaxPaths
None == -1
Seeds == 0..MaxSeed
Entropy == 0..(MaxSeed + 1)

-----------------------------------------------------------------------------
(* Float values: integers, NaN, and the unwritten cells of np.empty *)

NaN == -1000001
Uninit == -1000002
Scale == 10 * 10 * 10

IsNaN(x) == x = NaN

FAdd(x, y) == IF IsNaN(x) \/ IsNaN(y) THEN NaN ELSE x + y

FSub(x, y) == IF IsNaN(x) \/ IsNaN(y) THEN NaN ELSE x - y

FMul(x, y) == IF IsNaN(x) \/ IsNaN(y) THEN NaN ELSE x * y

FGt(x, y) == ~IsNaN(x) /\ ~IsNaN(y) /\ x > y

FGe(x, y) == ~IsNaN(x) /\ ~IsNaN(y) /\ x >= y

\* builtin max(x, y): y only when y > x, so a NaN first argument is returned
PyMax(x, y) == IF FGt(y, x) THEN y ELSE x

ISqrt(n) == CHOOSE k \in 0..n : k * k <= n /\ (k + 1) * (k + 1) > n

\* np.sqrt: NaN (with a RuntimeWarning, no exception) for a negative argument
np_sqrt(x) == IF IsNaN(x) \/ x < 0 THEN NaN ELSE ISqrt(x)

\* exp(x) for integer x, in units of 1/Scale (e = 2.718, 1/e = 0.368)
RECURSIVE np_exp(_)
np_exp(x) ==
    IF x = 0 THEN Scale
    ELSE IF x < 0 THEN (np_exp(x + 1) * 368) \div Scale
    ELSE (np_exp(x - 1) * 2718) \div Scale

-----------------------------------------------------------------------------
(* Grid *)

\* variant: int(np.floor(T / dt))
floor_div(T, dt) ==
    IF dt > 0 THEN T \div dt ELSE (0 - T) \div (0 - dt)

\* int(np.ceil(T / dt)), dt # 0
ceil_div(T, dt) ==
    IF dt > 0 THEN 0 - ((0 - T) \div dt) ELSE 0 - (T \div (0 - dt))

\* np.linspace(start, stop, num), num >= 0: num points with the endpoint; the
\* division is exact for every call the engines make (stop = dt * (num - 1))
linspace(start, stop, num) ==
    IF num = 1 THEN << start >>
    ELSE [k \in 1..num |-> start + (k - 1) * ((stop - start) \div (num - 1))]

np_empty(n) == [k \in 1..n |-> Uninit]

-----------------------------------------------------------------------------
(* Random stream *)

\* the k-th standard normal of the stream seeded with key (k from 0)
Draw(key, k) == (((key + k + key * k) % 5) % 3) - 1

\* variant: np.random.default_rng(), the seed dropped
default_rng_unseeded(seed, entropy) == [key |-> entropy, pos |-> 0]

default_rng(seed, entropy) ==
    [key |-> IF seed = None THEN entropy ELSE seed, pos |-> 0]

\* variant: a draw that does not advance the stream
normal_stuck(g) == [z |-> Draw(g.key, g.pos), rng |-> g]

normal(g) == [z |-> Draw(g.key, g.pos), rng |-> [g EXCEPT !.pos = @ + 1]]

-----------------------------------------------------------------------------
(* Single-path update rules *)

\* variant: the CIR clamp applied in both engines
path_init_clamped(engine, r0) == PyMax(r0, 0)

\* r[0] = r0 (vasicek_path), r[0] = max(r0, 0.0) (cir_path)
path_init(engine, r0) == IF engine = "cir" THEN PyMax(r0, 0) ELSE r0

\* r[i] = r[i-1] + a * (b - r[i-1]) * dt + sigma * sqdt * rng.normal()
vasicek_step(r_im1, a, b, sigma, dt, sqdt, z) ==
    LET dr == FAdd(FMul(FMul(a, FSub(b, r_im1)), dt), FMul(FMul(sigma, sqdt), z))
    IN  FAdd(r_im1, dr)

\* the three statements of the loop body of cir_path
cir_step(r_im1, kappa, theta, sigma, dt, sqdt, z) ==
    LET r_prev == PyMax(r_im1, 0)
        dr == FAdd(FMul(FMul(kappa, FSub(theta, r_prev)), dt),
                   FMul(FMul(FMul(sigma, np_sqrt(PyMax(r_prev, 0))), sqdt), z))
    IN  PyMax(FAdd(r_prev, dr), 0)

path_step(engine, r_im1, p, sqdt, z) ==
    IF engine = "cir"
    THEN cir_step(r_im1, p.a, p.b, p.sigma, p.dt, sqdt, z)
    ELSE vasicek_step(r_im1, p.a, p.b, p.sigma, p.dt, sqdt, z)

\* variant: range(1, N + 1)
range_has_next_inclusive(i, n) == i <= n

\* for i in range(1, N): the body runs while i < N
range_has_next(i, n) == i < n

\* variant: paths[:, -1 - j] = r
store_column_reversed(table, j, r) == [table EXCEPT ![Len(table) - j] = r]

\* paths[:, j] = r (j from 0)
store_column(table, j, r) == [table EXCEPT ![j + 1] = r]

-----------------------------------------------------------------------------
(* Analytic moments, values in units of 1/Scale *)

full_like_nan(t) == [k \in 1..Len(t) |-> NaN]

vasicek_mean(r0, a, b, t) ==
    [k \in 1..Len(t) |-> b * Scale + (r0 - b) * np_exp(0 - a * t[k])]

vasicek_var(a, sigma, t) ==
    [k \in 1..Len(t) |->
        (((sigma * sigma * Scale) \div (2 * a)) * (Scale - np_exp(0 - 2 * a * t[k])))
            \div Scale]

\* variant: the guard a >= 0, so that a = 0 divides by 2 * a = 0
\* (ZeroDivisionError on Python floats)
vasicek_analytic_unguarded(r0, a, b, sigma, t) ==
    IF a >= 0
    THEN IF 2 * a = 0
         THEN [raised |-> TRUE, mean |-> << >>, var |-> << >>]
         ELSE [raised |-> FALSE, mean |-> vasicek_mean(r0, a, b, t),
               var |-> vasicek_var(a, sigma, t)]
    ELSE [raised |-> FALSE, mean |-> vasicek_mean(r0, a, b, t),
          var |-> full_like_nan(t)]

vasicek_analytic_mean_var(r0, a, b, sigma, t) ==
    [raised |-> FALSE,
     mean |-> vasicek_mean(r0, a, b, t),
     var |-> IF a > 0 THEN vasicek_var(a, sigma, t) ELSE full_like_nan(t)]

cir_var(r0, kappa, theta, sigma, t) ==
    [k \in 1..Len(t) |->
        LET expk == np_exp(0 - kappa * t[k])
        IN  sigma * sigma
              * ((r0 * expk * (Scale - expk)) \div (Scale * kappa)
                 + (theta * (Scale - expk) * (Scale - expk)) \div (Scale * 2 * kappa))]

cir_analytic_mean_var(r0, kappa, theta, sigma, t) ==
    [raised |-> FALSE,
     mean |-> [k \in 1..Len(t) |->
                 theta * Scale + (r0 - theta) * np_exp(0 - kappa * t[k])],
     var |-> IF kappa > 0 THEN cir_var(r0, kappa, theta, sigma, t)
             ELSE full_like_nan(t)]

analytic_mean_var(engine, p, t) ==
    IF engine = "cir"
    THEN cir_analytic_mean_var(p.r0, p.a, p.b, p.sigma, t)
    ELSE vasicek_analytic_mean_var(p.r0, p.a, p.b, p.sigma, t)

-----------------------------------------------------------------------------
(* State *)

VARIABLES
    engine,     \* which module the session uses
    params,     \* r0, a (kappa), b (theta), sigma, T, dt of the session
    pc,         \* "idle", "loop" (in *_paths), "step" (in *_path),
                \* "returned", "moments", "raised"
    caller,     \* "paths": *_paths was called; "direct": *_path was called
    n_paths,    \* arguments of the *_paths call
    seed,
    rng,        \* the generator: [key, pos], pos = draws consumed
    N,          \* locals of *_paths
    t,
    paths,      \* the table, as the sequence of its columns paths[:, j]
    j,
    pN,         \* locals of *_path: N, t, r, sqdt, i
    pt,
    r,
    sqdt,
    i,
    err,        \* the exception a raised call ended with
    moments,    \* what *_analytic_mean_var returned for the grid t
    prev        \* the previous call of the session that returned a table

vars == << engine, params, pc, caller, n_paths, seed, rng, N, t, paths, j,
           pN, pt, r, sqdt, i, err, moments, prev >>

NoRng == [key |-> 0, pos |-> 0]
NoMoments == [raised |-> FALSE, mean |-> << >>, var |-> << >>]
NoPrev == [n_paths |-> None, seed |-> None, t |-> << >>, paths |-> << >>]

Init ==
    /\ engine \in Engines
    /\ params \in [r0 : R0s, a : Speeds, b : Levels, sigma : Vols,
                   T : Horizons, dt : TimeSteps]
    /\ pc = "idle"
    /\ caller = "paths"
    /\ n_paths = 0
    /\ seed = None
    /\ rng = NoRng
    /\ N = 0
    /\ t = << >>
    /\ paths = << >>
    /\ j = 0
    /\ pN = 0
    /\ pt = << >>
    /\ r = << >>
    /\ sqdt = 0
    /\ i = 0
    /\ err = "none"
    /\ moments = NoMoments
    /\ prev = NoPrev

Raise(e) ==
    /\ pc' = "raised"
    /\ err' = e

\* vasicek_path / cir_path up to the loop header, with generator g
PathEntry(g) ==
    /\ rng' = g
    /\ IF params.dt = 0
       THEN Raise("ZeroDivisionError") /\ UNCHANGED << pN, pt, r, sqdt, i >>
       ELSE LET n == ceil_div(params.T, params.dt) IN
            IF n < 0
            THEN \* np.linspace: number of samples must be non-negative
                 Raise("ValueError") /\ pN' = n /\ UNCHANGED << pt, r, sqdt, i >>
            ELSE IF n = 0
            THEN \* r[0] = r0 on an array of size 0
                 /\ Raise("IndexError")
                 /\ pN' = n
                 /\ pt' = linspace(0, params.dt * (n - 1), n)
                 /\ r' = np_empty(n)
                 /\ UNCHANGED << sqdt, i >>
            ELSE /\ pN' = n
                 /\ pt' = linspace(0, params.dt * (n - 1), n)
                 /\ r' = [np_empty(n) EXCEPT ![1] = path_init(engine, params.r0)]
                 /\ sqdt' = np_sqrt(params.dt)
                 /\ i' = 1
                 /\ pc' = "step"
                 /\ err' = err

\* vasicek_paths / cir_paths up to the loop header
CallPaths ==
    /\ pc = "idle"
    /\ \E n \in PathCounts, s \in Seeds \cup {None}, e \in Entropy :
        /\ caller' = "paths"
        /\ n_paths' = n
        /\ seed' = s
        /\ rng' = default_rng(s, e)
        /\ IF params.dt = 0
           THEN Raise("ZeroDivisionError") /\ UNCHANGED << N, t, paths, j >>
           ELSE LET n0 == ceil_div(params.T, params.dt) IN
                IF n0 < 0 \/ n < 0
                THEN \* np.linspace (n0 < 0), else np.empty: negative dimensions
                     Raise("ValueError") /\ N' = n0 /\ UNCHANGED << t, paths, j >>
                ELSE /\ N' = n0
                     /\ t' = linspace(0, params.dt * (n0 - 1), n0)
                     /\ paths' = [c \in 1..n |-> np_empty(n0)]
                     /\ j' = 0
                     /\ pc' = "loop"
                     /\ err' = err
    /\ UNCHANGED << engine, params, pN, pt, r, sqdt, i, moments, prev >>

\* for j in range(n_paths): _, r = *_path(..., rng=rng)
EnterPath ==
    /\ pc = "loop"
    /\ j < n_paths
    /\ PathEntry(rng)
    /\ UNCHANGED << engine, params, caller, n_paths, seed, N, t, paths, j,
                    moments, prev >>

\* *_path called on its own with rng=None: a fresh unseeded generator
CallPath ==
    /\ pc = "idle"
    /\ caller' = "direct"
    /\ \E e \in Entropy : PathEntry(default_rng(None, e))
    /\ UNCHANGED << engine, params, n_paths, seed, N, t, paths, j, moments, prev >>

\* one iteration of the loop of *_path
Step ==
    /\ pc = "step"
    /\ range_has_next(i, pN)
    /\ LET d == normal(rng) IN
        /\ rng' = d.rng
        /\ IF i + 1 > Len(r)
           THEN Raise("IndexError") /\ UNCHANGED << r, i >>
           ELSE /\ r' = [r EXCEPT ![i + 1] = path_step(engine, r[i], params, sqdt, d.z)]
                /\ i' = i + 1
                /\ UNCHANGED << pc, err >>
    /\ UNCHANGED << engine, params, caller, n_paths, seed, N, t, paths, j,
                    pN, pt, sqdt, moments, prev >>

\* return t, r; in *_paths: paths[:, j] = r
PathReturn ==
    /\ pc = "step"
    /\ ~range_has_next(i, pN)
    /\ IF caller = "direct"
       THEN pc' = "returned" /\ UNCHANGED << paths, j >>
       ELSE /\ paths' = store_column(paths, j, r)
            /\ j' = j + 1
            /\ pc' = "loop"
    /\ UNCHANGED << engine, params, caller, n_paths, seed, rng, N, t,
                    pN, pt, r, sqdt, i, err, moments, prev >>

\* return t, paths
PathsReturn ==
    /\ pc = "loop"
    /\ j >= n_paths
    /\ pc' = "returned"
    /\ UNCHANGED << engine, params, caller, n_paths, seed, rng, N, t, paths, j,
                    pN, pt, r, sqdt, i, err, moments, prev >>

\* mean_t, var_t = *_analytic_mean_var(r0, a, b, sigma, t)
Moments ==
    /\ pc = "returned"
    /\ caller = "paths"
    /\ moments' = analytic_mean_var(engine, params, t)
    /\ pc' = "moments"
    /\ UNCHANGED << engine, params, caller, n_paths, seed, rng, N, t, paths, j,
                    pN, pt, r, sqdt, i, err, prev >>

\* the call is over; its locals are dropped, and the session remembers the
\* table it returned
Finish ==
    /\ \/ pc = "moments"
       \/ pc = "raised"
       \/ pc = "returned" /\ caller = "direct"
    /\ prev' = IF pc = "moments"
               THEN [n_paths |-> n_paths, seed |-> seed, t |-> t, paths |-> paths]
               ELSE prev
    /\ pc' = "idle"
    /\ caller' = "paths"
    /\ n_paths' = 0
    /\ seed' = None
    /\ rng' = NoRng
    /\ N' = 0
    /\ t' = << >>
    /\ paths' = << >>
    /\ j' = 0
    /\ pN' = 0
    /\ pt' = << >>
    /\ r' = << >>
    /\ sqdt' = 0
    /\ i' = 0
    /\ err' = "none"
    /\ moments' = NoMoments
    /\ UNCHANGED << engine, params >>

Next ==
    \/ CallPaths
    \/ EnterPath
    \/ CallPath
    \/ Step
    \/ PathReturn
    \/ PathsReturn
    \/ Moments
    \/ Finish

Spec == Init /\ [][Next]_vars

-----------------------------------------------------------------------------
(* Properties *)

Min(x, y) == IF x <= y THEN x ELSE y

Returned == pc \in {"returned", "moments"} /\ caller = "paths"

InPaths == pc \in {"loop", "step", "returned", "moments"} /\ caller = "paths"

\* the previous call of the session used the same non-absent seed
SameSeed == Returned /\ prev # NoPrev /\ seed # None /\ prev.seed = seed

\* C1 Prefix-stability: when two *_paths calls with the same parameters and
\* the same seed return tables of k and m columns, k <= m, the first k
\* columns of the wider table equal the narrower table, entry for entry.
C1_PrefixStability ==
    SameSeed =>
        \A c \in 1..Min(n_paths, prev.n_paths) : paths[c] = prev.paths[c]

C1_Witness ==
    /\ SameSeed
    /\ prev.n_paths >= 1
    /\ n_paths > prev.n_paths
    /\ N >= 3
    /\ params.dt > 0
    /\ params.sigma # 0
    /\ paths[1] # paths[2]

\* C2 Reproducibility: two *_paths calls with the same parameters, the same
\* path count and the same non-absent seed return the same grid and the same
\* table; nothing of the earlier call reaches the later one.
C2_Reproducible ==
    (SameSeed /\ prev.n_paths = n_paths) => (t = prev.t /\ paths = prev.paths)

C2_Witness ==
    /\ SameSeed
    /\ prev.n_paths = n_paths
    /\ n_paths >= 2
    /\ N >= 3
    /\ params.dt > 0
    /\ params.sigma # 0
    /\ paths[1] # paths[2]

\* C3 CIR non-negativity: every entry of the table cir_paths returns, and of
\* the series cir_path returns, is >= 0, for any input parameters.
C3_CIRNonNegative ==
    (engine = "cir" /\ pc = "returned") =>
        /\ caller = "direct" => \A k \in 1..Len(r) : FGe(r[k], 0)
        /\ caller = "paths" =>
             \A c \in 1..Len(paths) : \A k \in 1..Len(paths[c]) : FGe(paths[c][k], 0)

\* C4 Input validation: a *_paths call with non-positive T, non-positive dt
\* or negative path_count never returns a table.
C4_InvalidInputRejected ==
    (pc = "returned" /\ caller = "paths") =>
        (params.T > 0 /\ params.dt > 0 /\ n_paths >= 0)

\* the grid g of n points is the one of T and dt: n = ceil(T/dt), it starts at
\* 0 and its k-th point (from 0) is k * dt
GridOf(g, n) ==
    /\ (n - 1) * params.dt < params.T
    /\ params.T <= n * params.dt
    /\ Len(g) = n
    /\ g[1] = 0
    /\ \A k \in 1..n : g[k] = (k - 1) * params.dt
    /\ \A k \in 1..(n - 1) : g[k + 1] - g[k] = params.dt

\* C5 Grid correctness: for T > 0 and dt > 0 the grid of *_path and of
\* *_paths has N = ceil(T/dt) points 0, dt, ..., (N-1)*dt, the table has N
\* rows and path_count columns, and *_paths' grid is the one each *_path
\* call computes.
C5_GridCorrect ==
    (params.T > 0 /\ params.dt > 0) =>
        /\ InPaths =>
             /\ GridOf(t, N)
             /\ Len(paths) = n_paths
             /\ \A c \in 1..Len(paths) : Len(paths[c]) = N
        /\ (pc = "step" \/ (pc = "returned" /\ caller = "direct")) =>
             /\ GridOf(pt, pN)
             /\ Len(r) = pN
             /\ caller = "paths" => pt = t

C5_Witness ==
    /\ Returned
    /\ params.T > 0
    /\ params.dt > 1
    /\ params.T % params.dt # 0
    /\ N >= 2
    /\ n_paths >= 2

\* C6 Vasicek initial condition: the first row of every column of the table
\* vasicek_paths builds is r0, unclamped, whatever was drawn before.
C6_VasicekInitial ==
    (engine = "vasicek" /\ InPaths) =>
        /\ \A c \in 1..j : paths[c][1] = params.r0
        /\ Returned => j = n_paths

C6_Witness ==
    /\ engine = "vasicek"
    /\ Returned
    /\ params.r0 < 0
    /\ n_paths >= 2
    /\ N >= 2
    /\ rng.pos > 0

\* C7 Undefined variance: *_analytic_mean_var does not raise and returns a
\* mean and a variance of the grid's length; with speed = 0 every variance
\* is NaN, with speed > 0 none is.
C7_UndefinedVariance ==
    pc = "moments" =>
        /\ ~moments.raised
        /\ Len(moments.mean) = Len(t)
        /\ Len(moments.var) = Len(t)
        /\ \A k \in 1..Len(moments.mean) : ~IsNaN(moments.mean[k])
        /\ params.a = 0 => \A k \in 1..Len(moments.var) : IsNaN(moments.var[k])
        /\ params.a > 0 => \A k \in 1..Len(moments.var) : ~IsNaN(moments.var[k])

C7_Witness ==
    /\ pc = "moments"
    /\ engine = "vasicek"
    /\ params.a = 0
    /\ Len(t) >= 2
    /\ \A k \in 1..Len(t) : IsNaN(moments.var[k])

\* C8 CIR step from zero: in cir_path, whenever r[i-1] = 0 the next value is
\* r[i] = max(kappa * theta * dt, 0), whatever the draw.
C8_StepFromZero ==
    (engine = "cir" /\ pc = "step") =>
        \A k \in 2..i :
            r[k - 1] = 0 => r[k] = PyMax(params.a * params.b * params.dt, 0)

\* C9 Single-point grid: when N = 1 a *_paths call with path_count >= 0 does
\* not raise and draws nothing; it returns the grid [0] and one row in which
\* every column is the initial condition, the same for every seed.
C9_SinglePoint ==
    (N = 1 /\ caller = "paths" /\ n_paths >= 0) =>
        /\ pc # "raised"
        /\ pc \in {"loop", "step", "returned", "moments"} => rng.pos = 0
        /\ Returned =>
             /\ t = << 0 >>
             /\ Len(paths) = n_paths
             /\ \A c \in 1..n_paths :
                  paths[c] = << IF engine = "cir" /\ params.r0 < 0
                                THEN 0 ELSE params.r0 >>
             /\ (prev # NoPrev /\ prev.n_paths = n_paths) => paths = prev.paths

C9_Witness ==
    /\ N = 1
    /\ Returned
    /\ n_paths >= 2
    /\ params.sigma # 0
    /\ prev # NoPrev
    /\ prev.n_paths = n_paths
    /\ prev.seed # seed

\* steps a *_paths call still has to take
Remaining ==
    IF caller # "paths" THEN 0
    ELSE IF pc = "loop" THEN (n_paths - j) * (N + 1) + 1
    ELSE IF pc = "step" THEN (n_paths - j - 1) * (N + 1) + (pN - i) + 2
    ELSE 0

StreamPositions ==
    InPaths =>
        /\ pc = "loop" => rng.pos = j * (N - 1)
        /\ pc = "step" => rng.pos = j * (N - 1) + (i - 1)
        /\ Returned => rng.pos = n_paths * (N - 1)
        /\ 0 <= j /\ j <= n_paths
        /\ pc = "step" => (1 <= i /\ i <= pN /\ pN = N /\ j < n_paths)
        /\ \A c \in 1..j : \A k \in 1..(N - 1) :
             paths[c][k + 1] =
                 path_step(engine, paths[c][k], params, sqdt,
                           Draw(rng.key, (c - 1) * (N - 1) + (k - 1)))

OneStream ==
    (pc \in {"loop", "step"} /\ caller = "paths") =>
        /\ rng'.key = rng.key
        /\ rng'.pos \in {rng.pos, rng.pos + 1}
        /\ Remaining' < Remaining
        /\ Remaining' >= 0

\* C10 Stream consumption order: a *_paths call uses one stream throughout;
\* each path takes N-1 draws, one per update step, so column j is computed
\* from draws j*(N-1) .. (j+1)*(N-1)-1; every step of the call lowers
\* Remaining, which is never negative, so the call ends, and it has consumed
\* path_count*(N-1) draws when it returns.
C10_StreamOrder ==
    /\ []StreamPositions
    /\ [][OneStream]_vars

C10_Witness ==
    /\ Returned
    /\ engine = "cir"
    /\ n_paths >= 2
    /\ N >= 3
    /\ params.dt > 0
    /\ params.sigma # 0
    /\ rng.pos = n_paths * (N - 1)
    /\ \E c \in 1..n_paths : \E k \in 1..(N - 1) : paths[c][k] = 0 /\ paths[c][k + 1] > 0

=============================================================================
